---- MODULE Spec2Model ----
(***************************************************************************)
(* Model of static/script.js, the browser-side controller of the Myanmar   *)
(* astrology chatbot: the module-level variables, the DOM state the        *)
(* handlers write (chat log, input field, send button, language chrome),   *)
(* the HTTP requests in flight, and one action per event handler or        *)
(* continuation after an await.  The server is opaque: every response is   *)
(* drawn from a small set of JSON bodies, or is a failure.  Responses to   *)
(* different requests may arrive in any order.  downloadPDF and            *)
(* toggleDevModal are left out: they read none of the variables below and  *)
(* write none but the chat log, to which downloadPDF appends one bubble.   *)
(***************************************************************************)
EXTENDS Integers, Sequences, FiniteSets, TLC

\* ---------------------------------------------------------------- bounds
\* Requests issued during one page view (fetch calls, all endpoints).
MaxIssued == 4

\* ------------------------------------------------------------ JS values
\* The value of an absent field / an unset variable.
Undefined == "undefined"

Langs == {"my", "en"}
States == {"greeting", "ask_dob"}

\* Hint tables: {} and two server-supplied tables.
EmptyHints == "{}"
HintTables == {"hints_my", "hints_en"}

\* Texts are sequences of characters; a multi-character string stands for
\* one piece of markup or one fixed message that holds no markup character.
Space == " "
\* The backquote character and the box-drawing double bar of the separators.
Backquote == "bq"
DoubleBar == "="

Min(S) == CHOOSE x \in S : \A y \in S : x <= y

\* String.prototype.trim, over the whitespace of the model's alphabet.
RECURSIVE TrimLeft(_)
TrimLeft(s) ==
    IF s # <<>> /\ Head(s) = Space THEN TrimLeft(Tail(s)) ELSE s

RECURSIVE TrimRight(_)
TrimRight(s) ==
    IF s # <<>> /\ s[Len(s)] = Space THEN TrimRight(SubSeq(s, 1, Len(s) - 1)) ELSE s

Trim(s) == TrimRight(TrimLeft(s))

\* ------------------------------------------------------- formatMessage
IsAt(s, i, d) == i >= 1 /\ i + Len(d) - 1 <= Len(s) /\ SubSeq(s, i, i + Len(d) - 1) = d

\* Least j >= i at which d occurs in s, 0 when there is none.
FindFrom(s, i, d) ==
    LET c == {j \in i..Len(s) : IsAt(s, j, d)}
    IN  IF c = {} THEN 0 ELSE Min(c)

\* .replace(/&/g,'&amp;').replace(/</g,'&lt;').replace(/>/g,'&gt;')
EscapeChar(c) ==
    IF c = "&" THEN "&amp;"
    ELSE IF c = "<" THEN "&lt;"
    ELSE IF c = ">" THEN "&gt;"
    ELSE c

RECURSIVE EscapeHtml(_)
EscapeHtml(s) == IF s = <<>> THEN <<>> ELSE <<EscapeChar(Head(s))>> \o EscapeHtml(Tail(s))

\* html.replace(/d(.*?)d/g, L + '$1' + R) for a delimiter d
RECURSIVE ReplaceWrapped(_, _, _, _)
ReplaceWrapped(s, d, L, R) ==
    LET i == FindFrom(s, 1, d)
        j == IF i = 0 THEN 0 ELSE FindFrom(s, i + Len(d), d)
    IN  IF j = 0 THEN s
        ELSE SubSeq(s, 1, i - 1) \o <<L>> \o SubSeq(s, i + Len(d), j - 1) \o <<R>>
             \o ReplaceWrapped(SubSeq(s, j + Len(d), Len(s)), d, L, R)

\* html.replace(/\[(.*?)\]\((.*?)\)/g, '<a href="$2" style="...">$1</a>')
RECURSIVE ReplaceLinks(_)
ReplaceLinks(s) ==
    LET i == FindFrom(s, 1, <<"[">>)
        js == IF i = 0 THEN {}
              ELSE {j \in (i + 1)..Len(s) :
                       IsAt(s, j, <<"]", "(">>) /\ FindFrom(s, j + 2, <<")">>) # 0}
    IN  IF js = {} THEN s
        ELSE LET j == Min(js)
                 k == FindFrom(s, j + 2, <<")">>)
             IN  SubSeq(s, 1, i - 1) \o <<"<a href=\"">> \o SubSeq(s, j + 2, k - 1)
                 \o <<"\" style=\"color: var(--accent-gold); text-decoration: underline;\">">>
                 \o SubSeq(s, i + 1, j - 1) \o <<"</a>">>
                 \o ReplaceLinks(SubSeq(s, k + 1, Len(s)))

\* html.replace of /X{3,}/g by the separator span, X the double bar
RECURSIVE RunEnd(_, _)
RunEnd(s, i) == IF i < Len(s) /\ s[i + 1] = DoubleBar THEN RunEnd(s, i + 1) ELSE i

RECURSIVE ReplaceSeparators(_)
ReplaceSeparators(s) ==
    LET i == FindFrom(s, 1, <<DoubleBar, DoubleBar, DoubleBar>>)
    IN  IF i = 0 THEN s
        ELSE SubSeq(s, 1, i - 1) \o <<"<span class=\"msg-separator\"></span>">>
             \o ReplaceSeparators(SubSeq(s, RunEnd(s, i) + 1, Len(s)))

formatMessage(text) ==
    ReplaceSeparators(
        ReplaceWrapped(
            ReplaceLinks(
                ReplaceWrapped(
                    ReplaceWrapped(EscapeHtml(text), <<"*", "*">>, "<strong>", "</strong>"),
                    <<"_">>, "<em>", "</em>")),
            <<Backquote>>, "<code>", "</code>"))

\* ------------------------------------------------------ fixed messages
\* The catch block of initChat (lines 97-99).
InitErrMsg(lang) ==
    IF lang = "en" THEN <<"Cannot connect to server. Please try again.">>
    ELSE <<"(my) cannot connect to server">>

\* The catch block of sendMessage (lines 135-137).
SendErrMsg(lang) ==
    IF lang = "en" THEN <<"Something went wrong. Please try again.">>
    ELSE <<"(my) something went wrong">>

\* ------------------------------------------------------------ the server
\* A parsed JSON body: the fields it holds, and their values.
Body(present, response, state, lang, hints) ==
    [present |-> present, response |-> response, state |-> state,
     lang |-> lang, hints |-> hints]

Plain == <<"h", "i">>
Marked == <<"*", "*", "<", "*", "*">>

\* Bodies of /api/init and /api/chat.
ReplyBodies ==
    { Body({"response", "state", "lang", "hints"}, Plain, "greeting", "my", "hints_my"),
      Body({"response", "state"}, Marked, "ask_dob", Undefined, Undefined),
      Body({"state", "lang", "hints"}, <<>>, "ask_dob", "en", "hints_en") }

\* Bodies of /api/set_lang.
SetLangBodies ==
    { Body({"lang", "hints"}, <<>>, Undefined, "en", "hints_en"),
      Body({}, <<>>, Undefined, Undefined, Undefined) }

NoBody == Body({}, <<>>, Undefined, Undefined, Undefined)

\* data.f, undefined when the body has no such field.
Field(data, f) == IF f \in data.present THEN data[f] ELSE Undefined

\* Every string of the model but the absent one is non-empty, hence truthy.
Truthy(v) == v # Undefined

\* fetch rejecting, or res.json() rejecting.
Failures == {"network error", "not JSON"}

\* What the user may have in the input field when an event fires.
TypedInputs == { <<Space>>, <<Space, "a", "<", Space>> }

\* Every text the model hands to addMessage, and its formatMessage, computed once.
Texts ==
    {b.response : b \in ReplyBodies} \cup {Trim(v) : v \in TypedInputs}
    \cup {InitErrMsg(l) : l \in Langs} \cup {SendErrMsg(l) : l \in Langs}

Formatted == [t \in Texts |-> formatMessage(t)]

\* --------------------------------------------------------------- hints
DefaultHintStates ==
    {"greeting", "ask_dob", "ask_wednesday", "reading_shown", "forecast_shown"}

\* currentHints[currentState]: hints_my covers every state, hints_en only greeting.
ServerHint(hints, state) ==
    IF hints = "hints_my" /\ state \in States THEN <<"server", hints, state>>
    ELSE IF hints = "hints_en" /\ state = "greeting" THEN <<"server", hints, state>>
    ELSE <<>>

\* The text updateHint puts into inputHint.
updateHint(hints, state, lang) ==
    IF ServerHint(hints, state) # <<>> THEN ServerHint(hints, state)
    ELSE IF state \in DefaultHintStates
         THEN <<"default", state, IF lang = "en" THEN "en" ELSE "my">>
         ELSE <<>>

\* ------------------------------------------------------------- chat log
\* A child of chatMessages.  typing: the element has id typingIndicator.
\* src is the request whose handler appended it (bookkeeping of the model).
Bubble(role, content, src) ==
    [role |-> role, typing |-> FALSE, html |-> Formatted[content], src |-> src]

addMessage(log, role, content, src) == Append(log, Bubble(role, content, src))

showTyping(log, src) ==
    Append(log, [role |-> "bot", typing |-> TRUE, html |-> <<"typing-indicator">>, src |-> src])

RemoveAt(log, i) == SubSeq(log, 1, i - 1) \o SubSeq(log, i + 1, Len(log))

\* A slip: drop the newest child of the log, whatever it is.
removeTypingLast(log) == IF log = <<>> THEN log ELSE RemoveAt(log, Len(log))

\* getElementById returns the first element with the id, in document order.
removeTyping(log) ==
    LET t == {i \in 1..Len(log) : log[i].typing}
    IN  IF t = {} THEN log ELSE RemoveAt(log, Min(t))

NonTyping(log) == SelectSeq(log, LAMBDA e : ~e.typing)
HasTyping(log) == \E i \in 1..Len(log) : log[i].typing

\* ------------------------------------------------------------ the state
VARIABLES
    isProcessing,       \* let isProcessing
    currentState,       \* let currentState
    currentLang,        \* let currentLang
    currentHints,       \* let currentHints
    chatMessages,       \* children of #chatMessages
    userInputValue,     \* userInput.value
    btnSendDisabled,    \* btnSend.disabled
    inputFocused,       \* userInput.focus() was called
    inputHint,          \* inputHint.textContent
    langFlag,           \* #langFlag textContent
    placeholder,        \* userInput.placeholder
    stars,              \* children of #starsContainer
    requests,           \* fetches in flight
    issued,             \* fetches issued so far; the next request is issued + 1
    initChatPc,         \* "unloaded", "waiting" (at the await of initChat), "done"
    sendPc,             \* "idle", "waiting" (at the fetch), "delay" (at the setTimeout)
    sendReq,            \* the request of the running sendMessage
    sendData,           \* data, while sendMessage sleeps
    guardReturns,       \* flips at every sendMessage call that returned at its guard
    handled             \* the newest request whose response was applied, and its state

vars == << isProcessing, currentState, currentLang, currentHints, chatMessages,
           userInputValue, btnSendDisabled, inputFocused, inputHint, langFlag,
           placeholder, stars, requests, issued, initChatPc,
           sendPc, sendReq, sendData, guardReturns, handled >>

\* Everything a no-op leaves alone: all but the model's mark of such calls.
programVars == << isProcessing, currentState, currentLang, currentHints, chatMessages,
                  userInputValue, btnSendDisabled, inputFocused, inputHint, langFlag,
                  placeholder, stars, requests, issued, initChatPc,
                  sendPc, sendReq, sendData >>

chrome == << inputHint, langFlag, placeholder >>
mirrored == << currentState, currentLang, currentHints >>
sendVars == << isProcessing, btnSendDisabled, inputFocused, sendPc, sendReq, sendData >>

StarCount == 80
HtmlDefault == "as in index.html"

\* A fetch in flight.  atIssue: the mirrored state when it was issued.
Request(id, url, owner, lang, msg) ==
    [id |-> id, url |-> url, owner |-> owner, lang |-> lang, msg |-> msg,
     atIssue |-> [state |-> currentState, lang |-> currentLang, hints |-> currentHints]]

NoRequest ==
    [id |-> 0, url |-> "", owner |-> "", lang |-> Undefined, msg |-> <<>>,
     atIssue |-> [state |-> "", lang |-> "", hints |-> ""]]

Of(owner) == {r \in requests : r.owner = owner}

\* Each pending toggleLanguage will issue one more request, from resetChat.
CanIssue(n) == issued + Cardinality(Of("toggleLanguage")) + n <= MaxIssued

Init ==
    /\ isProcessing = FALSE
    /\ currentState = "greeting"
    /\ currentLang = "my"
    /\ currentHints = EmptyHints
    /\ chatMessages = <<>>
    /\ userInputValue = <<>>
    /\ btnSendDisabled = FALSE
    /\ inputFocused = FALSE
    /\ inputHint = <<HtmlDefault>>
    /\ langFlag = HtmlDefault
    /\ placeholder = HtmlDefault
    /\ stars = 0
    /\ requests = {}
    /\ issued = 0
    /\ initChatPc = "unloaded"
    /\ sendPc = "idle"
    /\ sendReq = NoRequest
    /\ sendData = NoBody
    /\ guardReturns = FALSE
    /\ handled = [id |-> 0, state |-> "greeting"]

\* updateLangUI, run with the given values of the three variables.
updateLangUI(lang, hints, state) ==
    /\ langFlag' = IF lang = "my" THEN "flag MM" ELSE "flag GB"
    /\ placeholder' = IF lang = "en" THEN "Type a message..." ELSE "(my) type a message"
    /\ inputHint' = updateHint(hints, state, lang)

\* The response of request r was applied: the newest one so far is remembered.
Applied(r, data) ==
    handled' = IF r.id > handled.id
               THEN [id |-> r.id, state |-> Field(data, "state")]
               ELSE handled

\* ------------------------------------------------------------ page load
\* DOMContentLoaded: createStars(), then initChat() up to its await.
Load ==
    /\ initChatPc = "unloaded"
    /\ stars' = StarCount
    /\ chatMessages' = showTyping(chatMessages, issued + 1)
    /\ requests' = requests \cup
           {Request(issued + 1, "/api/init", "initChat", currentLang, <<>>)}
    /\ issued' = issued + 1
    /\ initChatPc' = "waiting"
    /\ UNCHANGED << mirrored, chrome, sendVars, userInputValue,
                    guardReturns, handled >>

Loaded == initChatPc # "unloaded"

\* initChat after its await, the body parsed.  A body without response makes
\* formatMessage throw inside addMessage, after removeTyping: the catch runs.
InitChatResponse(r, data) ==
    /\ r \in Of("initChat")
    /\ requests' = requests \ {r}
    /\ initChatPc' = "done"
    /\ IF "response" \in data.present
       THEN LET lang == IF Truthy(Field(data, "lang")) THEN data.lang ELSE currentLang
                hints == IF Truthy(Field(data, "hints")) THEN data.hints ELSE currentHints
            IN  /\ chatMessages' =
                       addMessage(removeTyping(chatMessages), "bot", data.response, r.id)
                /\ currentState' = Field(data, "state")
                /\ currentLang' = lang
                /\ currentHints' = hints
                /\ updateLangUI(lang, hints, Field(data, "state"))
                /\ Applied(r, data)
       ELSE /\ chatMessages' =
                   addMessage(removeTyping(removeTyping(chatMessages)), "bot",
                              InitErrMsg(currentLang), r.id)
            /\ UNCHANGED << mirrored, chrome, handled >>
    /\ UNCHANGED << sendVars, userInputValue, stars, issued, guardReturns >>

\* initChat after its await, fetch or res.json() having rejected: the catch block.
InitChatFailure(r, f) ==
    /\ r \in Of("initChat")
    /\ f \in Failures
    /\ requests' = requests \ {r}
    /\ initChatPc' = "done"
    /\ chatMessages' = addMessage(removeTyping(chatMessages), "bot", InitErrMsg(currentLang), r.id)
    /\ UNCHANGED << mirrored, chrome, sendVars, userInputValue, stars,
                    issued, guardReturns, handled >>

\* ------------------------------------------------------------ user input
\* The user edits the input field.
Type(v) ==
    /\ Loaded
    /\ v # userInputValue
    /\ userInputValue' = v
    /\ UNCHANGED << mirrored, chrome, sendVars, chatMessages, stars,
                    requests, issued, initChatPc, guardReturns, handled >>

\* A guard that forgets isProcessing.
SendGuardNoLock(msg) == msg # <<>>

\* if (!msg || isProcessing) return;
SendGuard(msg) == msg # <<>> /\ ~isProcessing

\* sendMessage (button, or Enter without Shift) returning at its guard.
SendMessageRejected ==
    /\ Loaded
    /\ ~SendGuard(Trim(userInputValue))
    /\ guardReturns' = ~guardReturns
    /\ UNCHANGED programVars
    /\ UNCHANGED handled

\* sendMessage from its guard to its first await.
SendMessageAccepted ==
    LET msg == Trim(userInputValue)
        req == Request(issued + 1, "/api/chat", "sendMessage", currentLang, msg)
    IN  /\ Loaded
        /\ SendGuard(msg)
        /\ CanIssue(1)
        /\ isProcessing' = TRUE
        /\ btnSendDisabled' = TRUE
        /\ userInputValue' = <<>>
        /\ chatMessages' = showTyping(addMessage(chatMessages, "user", msg, issued + 1), issued + 1)
        /\ requests' = requests \cup {req}
        /\ issued' = issued + 1
        /\ sendPc' = "waiting"
        /\ sendReq' = req
        /\ UNCHANGED << mirrored, chrome, inputFocused, sendData, stars,
                        initChatPc, guardReturns, handled >>

\* The end of sendMessage, without the lines that release the guard.
ReleaseGuardForgotten ==
    /\ isProcessing' = isProcessing
    /\ btnSendDisabled' = btnSendDisabled
    /\ inputFocused' = inputFocused

\* isProcessing = false; btnSend.disabled = false; userInput.focus();
ReleaseGuard ==
    /\ isProcessing' = FALSE
    /\ btnSendDisabled' = FALSE
    /\ inputFocused' = TRUE

\* The catch block of sendMessage, then its last three lines.
SendCatch(log) ==
    /\ chatMessages' = addMessage(removeTyping(log), "bot", SendErrMsg(currentLang), sendReq.id)
    /\ ReleaseGuard
    /\ sendPc' = "idle"
    /\ sendReq' = NoRequest
    /\ sendData' = NoBody
    /\ UNCHANGED << mirrored, chrome, handled >>

\* /api/chat answered and parsed: sendMessage goes to sleep for 400 to 1000 ms.
ChatResponse(r, data) ==
    /\ sendPc = "waiting"
    /\ r = sendReq
    /\ r \in requests
    /\ requests' = requests \ {r}
    /\ sendPc' = "delay"
    /\ sendData' = data
    /\ UNCHANGED << mirrored, chrome, chatMessages, isProcessing, btnSendDisabled,
                    inputFocused, sendReq, userInputValue, stars,
                    issued, initChatPc, guardReturns, handled >>

\* fetch('/api/chat') or res.json() rejected.
ChatFailure(r, f) ==
    /\ sendPc = "waiting"
    /\ r = sendReq
    /\ r \in requests
    /\ f \in Failures
    /\ requests' = requests \ {r}
    /\ SendCatch(chatMessages)
    /\ UNCHANGED << userInputValue, stars, issued, initChatPc, guardReturns >>

\* The timer fired: sendMessage from removeTyping() to its end.
SendAfterDelay ==
    /\ sendPc = "delay"
    /\ IF "response" \in sendData.present
       THEN LET lang == IF Truthy(Field(sendData, "lang")) THEN sendData.lang ELSE currentLang
            IN  /\ chatMessages' = addMessage(removeTyping(chatMessages), "bot",
                                              sendData.response, sendReq.id)
                /\ currentState' = Field(sendData, "state")
                /\ currentLang' = lang
                /\ inputHint' = updateHint(currentHints, Field(sendData, "state"), lang)
                /\ Applied(sendReq, sendData)
                /\ ReleaseGuard
                /\ sendPc' = "idle"
                /\ sendReq' = NoRequest
                /\ sendData' = NoBody
                /\ UNCHANGED << currentHints, langFlag, placeholder >>
       ELSE SendCatch(removeTyping(chatMessages))
    /\ UNCHANGED << userInputValue, stars, requests, issued, initChatPc,
                    guardReturns >>

\* -------------------------------------------------------- language toggle
\* toggleLanguage up to its await.
ToggleLanguage ==
    LET newLang == IF currentLang = "my" THEN "en" ELSE "my"
    IN  /\ Loaded
        /\ CanIssue(2)
        /\ requests' = requests \cup
               {Request(issued + 1, "/api/set_lang", "toggleLanguage", newLang, <<>>)}
        /\ issued' = issued + 1
        /\ UNCHANGED << mirrored, chrome, sendVars, chatMessages, userInputValue, stars, initChatPc, guardReturns, handled >>

\* toggleLanguage after its await: the assignments, updateLangUI(), then
\* resetChat() up to its fetch.
SetLangResponse(r, data) ==
    LET lang == Field(data, "lang")
        hints == IF Truthy(Field(data, "hints")) THEN data.hints ELSE EmptyHints
    IN  /\ r \in Of("toggleLanguage")
        /\ currentLang' = lang
        /\ currentHints' = hints
        /\ updateLangUI(lang, hints, currentState)
        /\ chatMessages' = <<>>
        /\ currentState' = "greeting"
        /\ requests' = (requests \ {r}) \cup
               {[id |-> issued + 1, url |-> "/api/init", owner |-> "resetChat",
                 lang |-> lang, msg |-> <<>>,
                 atIssue |-> [state |-> "greeting", lang |-> lang, hints |-> hints]]}
        /\ issued' = issued + 1
        /\ UNCHANGED << sendVars, userInputValue, stars, initChatPc,
                        guardReturns, handled >>

\* The catch block of toggleLanguage: console.error only.
SetLangFailure(r, f) ==
    /\ r \in Of("toggleLanguage")
    /\ f \in Failures
    /\ requests' = requests \ {r}
    /\ UNCHANGED << mirrored, chrome, sendVars, chatMessages, userInputValue, stars, issued, initChatPc, guardReturns, handled >>

\* The .then chain of resetChat.  A body without response makes addMessage
\* throw before anything is written: the promise rejects, unhandled.
ResetChatResponse(r, data) ==
    /\ r \in Of("resetChat")
    /\ requests' = requests \ {r}
    /\ IF "response" \in data.present
       THEN LET lang == IF Truthy(Field(data, "lang")) THEN data.lang ELSE currentLang
                hints == IF Truthy(Field(data, "hints")) THEN data.hints ELSE currentHints
            IN  /\ chatMessages' = addMessage(chatMessages, "bot", data.response, r.id)
                /\ currentState' = Field(data, "state")
                /\ currentLang' = lang
                /\ currentHints' = hints
                /\ updateLangUI(lang, hints, Field(data, "state"))
                /\ Applied(r, data)
       ELSE UNCHANGED << mirrored, chrome, chatMessages, handled >>
    /\ UNCHANGED << sendVars, userInputValue, stars, issued, initChatPc,
                    guardReturns >>

\* The fetch of resetChat, or its res.json(), rejected: nothing catches it.
ResetChatFailure(r, f) ==
    /\ r \in Of("resetChat")
    /\ f \in Failures
    /\ requests' = requests \ {r}
    /\ UNCHANGED << mirrored, chrome, sendVars, chatMessages, userInputValue, stars, issued, initChatPc, guardReturns, handled >>

\* ---------------------------------------------------------- specification
Next ==
    \/ Load
    \/ \E r \in requests, data \in ReplyBodies : InitChatResponse(r, data)
    \/ \E r \in requests, f \in Failures : InitChatFailure(r, f)
    \/ \E v \in TypedInputs : Type(v)
    \/ SendMessageRejected
    \/ SendMessageAccepted
    \/ \E r \in requests, data \in ReplyBodies : ChatResponse(r, data)
    \/ \E r \in requests, f \in Failures : ChatFailure(r, f)
    \/ SendAfterDelay
    \/ ToggleLanguage
    \/ \E r \in requests, data \in SetLangBodies : SetLangResponse(r, data)
    \/ \E r \in requests, f \in Failures : SetLangFailure(r, f)
    \/ \E r \in requests, data \in ReplyBodies : ResetChatResponse(r, data)
    \/ \E r \in requests, f \in Failures : ResetChatFailure(r, f)

Spec == Init /\ [][Next]_vars

\* The next step of a running sendMessage: its fetch settles, or its timer fires.
SendContinues ==
    \/ \E r \in requests, data \in ReplyBodies : ChatResponse(r, data)
    \/ \E r \in requests, f \in Failures : ChatFailure(r, f)
    \/ SendAfterDelay

\* The browser's event loop: a fetch settles, a timer fires, and the
\* continuation waiting for it runs.
Fairness == WF_vars(SendContinues)

FairSpec == Spec /\ Fairness

TypeOK ==
    /\ isProcessing \in BOOLEAN
    /\ currentLang \in Langs \cup {Undefined}
    /\ currentState \in States \cup {Undefined}
    /\ issued \in 0..MaxIssued

\* ------------------------------------------------------------ the claims
InFlight(owner) == Cardinality(Of(owner))

\* The requests a step completed, and those it issued.
Completed == requests \ requests'
Issued == requests' \ requests

IsPrefix(s, t) == Len(s) <= Len(t) /\ SubSeq(t, 1, Len(s)) = s

\* A step in which toggleLanguage got its body and ran resetChat.
ToggleSucceeded == \E r \in Completed : r.owner = "toggleLanguage" /\ issued' = issued + 1

\* A step in which toggleLanguage caught a failure.
ToggleFailed == \E r \in Completed : r.owner = "toggleLanguage" /\ issued' = issued

\* C1: network requests are sequential - in every reachable state at most one
\* request to the server is in flight.
C1_OneRequestInFlight == Cardinality(requests) <= 1

\* C2: currentState only mirrors the server - it is 'greeting', or the state
\* field of the response issued most recently among those handled; a response
\* to an older request never overwrites the state taken from a newer one.
C2_StateMirrorsNewestResponse ==
    currentState = "greeting" \/ (handled.id > 0 /\ currentState = handled.state)

\* C3: every accepted sendMessage appends one user bubble with the text and
\* issues exactly one /api/chat request carrying the text and currentLang; when
\* the call ends it has issued no further request and has appended exactly one
\* bot bubble, which stands after that user bubble.
C3_SendShownOnce ==
    [][ /\ (sendPc = "idle" /\ sendPc' = "waiting") =>
              LET msg == Trim(userInputValue)
              IN  /\ NonTyping(chatMessages') =
                         Append(NonTyping(chatMessages), Bubble("user", msg, issued'))
                  /\ \E r \in Issued :
                         /\ Issued = {r}
                         /\ r.url = "/api/chat" /\ r.msg = msg /\ r.lang = currentLang
        /\ (sendPc # "idle" /\ sendPc' = "idle") =>
              LET n == Len(chatMessages')
                  reply == IF sendPc = "delay" /\ "response" \in sendData.present
                           THEN sendData.response ELSE SendErrMsg(currentLang)
              IN  /\ Issued = {}
                  /\ n >= 2
                  /\ chatMessages'[n] = Bubble("bot", reply, sendReq.id)
                  /\ Cardinality({i \in 1..n : /\ chatMessages'[i].src = sendReq.id
                                               /\ chatMessages'[i].role = "bot"
                                               /\ ~chatMessages'[i].typing}) = 1
                  /\ \E i \in 1..(n - 1) :
                         chatMessages'[i] = Bubble("user", sendReq.msg, sendReq.id)
      ]_vars

\* C4: the server sending only 'my' or 'en' as lang, currentLang is 'my' or
\* 'en' in every reachable state, and a response without lang leaves it as it is.
C4_LangStaysValid == currentLang \in Langs

\* C5: a successful toggle empties the chat log, sets currentState to
\* 'greeting' and issues one /api/init with the lang /api/set_lang returned; once
\* that response is handled and no other request is in flight, the chat log is
\* exactly one bot bubble, the greeting of that response.
C5_ToggleResetsChat ==
    [][ /\ ToggleSucceeded =>
              /\ chatMessages' = <<>>
              /\ currentState' = "greeting"
              /\ \E r \in Issued :
                     /\ Issued = {r}
                     /\ r.url = "/api/init" /\ r.lang = currentLang'
        /\ \A r \in Completed :
              (r.owner = "resetChat" /\ handled'.id = r.id /\ handled.id # r.id
               /\ requests' = {}) =>
                  /\ Len(chatMessages') = 1
                  /\ chatMessages'[1].role = "bot"
                  /\ chatMessages'[1].src = r.id
      ]_vars

\* C6: at most one /api/chat request is in flight, and a sendMessage called
\* while isProcessing is true or with text that trims to nothing changes
\* nothing: no bubble, no request, the input field, isProcessing, the send
\* button, currentState and currentLang as they were.
C6_GuardedSendIsNoOp ==
    [][ /\ InFlight("sendMessage")' <= 1
        /\ (guardReturns' # guardReturns) =>
              /\ isProcessing \/ Trim(userInputValue) = <<>>
              /\ UNCHANGED programVars
        /\ (isProcessing \/ Trim(userInputValue) = <<>>) =>
              /\ \A r \in Issued : r.url # "/api/chat"
              /\ \A i \in 1..Len(chatMessages') :
                     chatMessages'[i].role = "user" =>
                         \E j \in 1..Len(chatMessages) : chatMessages[j] = chatMessages'[i]
      ]_vars

\* A call was turned away while a chat turn was running and text was typed.
C6_Witness ==
    /\ guardReturns
    /\ isProcessing
    /\ Trim(userInputValue) # <<>>
    /\ InFlight("sendMessage") = 1

\* C7: isProcessing is true exactly while a sendMessage call is between its
\* acceptance and its end, the send button is disabled exactly then, and every
\* accepted call, its request completing or failing, ends with isProcessing
\* false and the button enabled.
C7_GuardReleased ==
    /\ [](isProcessing <=> sendPc # "idle")
    /\ [](btnSendDisabled <=> isProcessing)
    /\ (isProcessing ~> (~isProcessing /\ ~btnSendDisabled))

\* A sendMessage ended in its catch block and the guard is free again.
C7_Witness ==
    /\ ~isProcessing
    /\ ~btnSendDisabled
    /\ inputFocused
    /\ \E i \in 1..Len(chatMessages) :
           chatMessages[i].html \in {SendErrMsg("en"), SendErrMsg("my")}

\* C8: handling a failed /api/chat, /api/init (initChat) or /api/set_lang
\* leaves currentState, currentLang and currentHints as they were when the
\* request was issued; /api/chat and initChat append one error bubble in the
\* current language, /api/set_lang leaves the log alone and issues no /api/init.
C8_FailureKeepsIssueState ==
    [][ /\ \A r \in Completed :
              ( \/ r.owner = "toggleLanguage" /\ issued' = issued
                \/ r.owner = "sendMessage" /\ sendPc' = "idle"
                \/ r.owner = "initChat" /\ handled' = handled ) =>
                   /\ currentState' = r.atIssue.state
                   /\ currentLang' = r.atIssue.lang
                   /\ currentHints' = r.atIssue.hints
        /\ \A r \in Completed :
              (r.owner = "sendMessage" /\ sendPc' = "idle") =>
                  chatMessages' = addMessage(removeTyping(chatMessages), "bot",
                                             SendErrMsg(currentLang), r.id)
        /\ ToggleFailed => (chatMessages' = chatMessages /\ Issued = {})
      ]_vars

\* C9 as stated: whenever no /api/init request of initChat and no /api/chat
\* request is in flight, the chat log holds no typing indicator.
C9_NoTypingWithoutRequest ==
    (InFlight("initChat") = 0 /\ InFlight("sendMessage") = 0) => ~HasTyping(chatMessages)

\* C9 amended: whenever initChat is not at its await and no sendMessage call
\* is running (isProcessing is false), the chat log holds no typing indicator;
\* and only resetChat ever removes an element that is not a typing indicator.
C9_TypingOnlyWhilePending ==
    [][ /\ (initChatPc' # "waiting" /\ sendPc' = "idle" /\ ~isProcessing') =>
              ~HasTyping(chatMessages')
        /\ \/ ToggleSucceeded /\ chatMessages' = <<>>
           \/ IsPrefix(NonTyping(chatMessages), NonTyping(chatMessages'))
      ]_vars

\* initChat and a sendMessage showed two indicators at once; both calls are
\* over, their two bubbles are in the log and no indicator is left.
C9_Witness ==
    /\ initChatPc = "done"
    /\ sendPc = "idle"
    /\ issued = 2
    /\ Len(chatMessages) = 3
    /\ chatMessages[1].role = "user"
    /\ chatMessages[2].src # chatMessages[3].src
    /\ ~HasTyping(chatMessages)

====
